---- MODULE Spec2Model ----
(***************************************************************************)
(* Lead intake and creator qualification backend (server/index.js,         *)
(* server/lib/scoring.js, server/db/schema.sql).                           *)
(*                                                                         *)
(* Numbers.  The JavaScript code computes with doubles.  Every number the  *)
(* model needs is a ratio of small integers, so the model keeps exact      *)
(* rationals: an engagement rate or a posts-per-week figure is a record    *)
(* [num, den], a classifier confidence is an integer number of hundredths  *)
(* (what Number(x.toFixed(2)) leaves), and a weighted total is an integer  *)
(* number of hundredths.  Over the sub-score ranges of the step functions  *)
(* the double computation of computeTotalScore and the exact one give the  *)
(* same result for all 2048 + 256 argument combinations.                   *)
(*                                                                         *)
(* Text.  A string is a sequence of one-character strings, so that         *)
(* toLowerCase and String.prototype.includes are computed, not assumed.    *)
(***************************************************************************)
EXTENDS Integers, Sequences, FiniteSets, TLC

(***************************************************************************)
(* server/lib/scoring.js : step functions                                  *)
(***************************************************************************)

\* JavaScript null, and a number, as values of one shape (an optional number).
Null == <<>>
Num(n) == <<n>>
IsNumber(v) == Len(v) = 1
Val(v) == v[1]

Min2(a, b) == IF a <= b THEN a ELSE b
Max2(a, b) == IF a >= b THEN a ELSE b

clamp(n, min, max) == Max2(min, Min2(max, n))

\* x >= m / 1000 for a rational x = [num, den] with den > 0.
GeMilli(x, m) == 1000 * x.num >= m * x.den
\* x > m / 1000 and x < m / 1000.
GtMilli(x, m) == 1000 * x.num > m * x.den
LtMilli(x, m) == 1000 * x.num < m * x.den

Ratio(n, d) == [num |-> n, den |-> d]

\* Mutant: the thresholds compared with > where the code has >=.
computeErScore_strict(er) ==
  IF GtMilli(er, 60) THEN 100
  ELSE IF GtMilli(er, 30) THEN 70
  ELSE IF GtMilli(er, 15) THEN 45
  ELSE 20

computeErScore(er) ==
  IF GeMilli(er, 60) THEN 100
  ELSE IF GeMilli(er, 30) THEN 70
  ELSE IF GeMilli(er, 15) THEN 45
  ELSE 20

\* Mutant: the thresholds compared with > where the code has >=.
computeConsistencyScore_strict(contentsPerWeek) ==
  IF GtMilli(contentsPerWeek, 4000) THEN 100
  ELSE IF GtMilli(contentsPerWeek, 2000) THEN 70
  ELSE IF GtMilli(contentsPerWeek, 1000) THEN 40
  ELSE 20

computeConsistencyScore(contentsPerWeek) ==
  IF GeMilli(contentsPerWeek, 4000) THEN 100
  ELSE IF GeMilli(contentsPerWeek, 2000) THEN 70
  ELSE IF GeMilli(contentsPerWeek, 1000) THEN 40
  ELSE 20

\* Mutant: the results of the two upper steps exchanged.
computeNicheScore_dip(confidence) ==
  IF confidence >= 75 THEN 75
  ELSE IF confidence >= 60 THEN 100
  ELSE IF confidence >= 45 THEN 55
  ELSE 35

\* confidence is in hundredths.
computeNicheScore(confidence) ==
  IF confidence >= 75 THEN 100
  ELSE IF confidence >= 60 THEN 75
  ELSE IF confidence >= 45 THEN 55
  ELSE 35

computeReachScore(reachAvailable, ratio) ==
  IF ~reachAvailable THEN Null
  ELSE IF GeMilli(ratio, 1200) THEN Num(100)
  ELSE IF GeMilli(ratio, 800) THEN Num(75)
  ELSE IF GeMilli(ratio, 500) THEN Num(55)
  ELSE Num(35)

\* Mutant: the follower thresholds compared with >= where the code has >.
computeFraudPenalty_ge(er, followers, contentCount30d) ==
  LET p1 == IF followers >= 20000 /\ LtMilli(er, 8) THEN 10 ELSE 0
      p2 == IF followers >= 50000 /\ contentCount30d < 4 THEN 10 ELSE 0
      p3 == IF GtMilli(er, 120) /\ contentCount30d < 6 THEN 10 ELSE 0
  IN  clamp(p1 + p2 + p3, 0, 30)

computeFraudPenalty(er, followers, contentCount30d) ==
  LET p1 == IF followers > 20000 /\ LtMilli(er, 8) THEN 10 ELSE 0
      p2 == IF followers > 50000 /\ contentCount30d < 4 THEN 10 ELSE 0
      p3 == IF GtMilli(er, 120) /\ contentCount30d < 6 THEN 10 ELSE 0
  IN  clamp(p1 + p2 + p3, 0, 30)

\* Mutant: Math.floor where the code has Math.round.
MathRound_floor(h) == h \div 100

\* Math.round of h / 100: the nearest integer, a tie going up.
MathRound(h) == (h + 50) \div 100

\* The weighted sums, in hundredths.
WeightedWithReach(a) ==
  30 * a.erScore + 25 * Val(a.reachScore) + 20 * a.consistencyScore
    + 15 * a.nicheScore - 10 * a.fraudPenalty

WeightedNoReach(a) ==
  40 * a.erScore + 25 * a.consistencyScore + 20 * a.nicheScore - 15 * a.fraudPenalty

\* Mutant: the sub-scores summed without their weights, and no clamp.
computeTotalScore_unweighted(a) ==
  IF a.reachAvailable /\ IsNumber(a.reachScore)
  THEN a.erScore + Val(a.reachScore) + a.consistencyScore + a.nicheScore - a.fraudPenalty
  ELSE a.erScore + a.consistencyScore + a.nicheScore - a.fraudPenalty

computeTotalScore(a) ==
  IF a.reachAvailable /\ IsNumber(a.reachScore)
  THEN clamp(MathRound(WeightedWithReach(a)), 0, 100)
  ELSE clamp(MathRound(WeightedNoReach(a)), 0, 100)

\* Mutant: the thresholds compared with > where the code has >=.
grade_strict(score) ==
  IF score > 80 THEN "A"
  ELSE IF score > 60 THEN "B"
  ELSE "C"

grade(score) ==
  IF score >= 80 THEN "A"
  ELSE IF score >= 60 THEN "B"
  ELSE "C"

(***************************************************************************)
(* server/lib/scoring.js : niche classifier                                *)
(***************************************************************************)

\* The dictionaries, in the enumeration order of the object literal.
DICTS ==
  <<
    [tag |-> "food", words |-> <<
        <<"r","e","s","t","a","u","r","a","n","t","e">>, <<"s","u","s","h","i">>,
        <<"c","o","m","i","d","a">>, <<"d","e","l","i","v","e","r","y">>, <<"m","e","n","ú">>,
        <<"m","e","n","u">>, <<"t","a","p","a","s">>, <<"r","e","s","e","ñ","a">>,
        <<"c","o","c","i","n","a">>, <<"c","h","e","f">>, <<"h","a","m","b","u","r","g">>,
        <<"r","a","m","e","n">>, <<"p","o","k","e">>, <<"i","z","a","k","a","y","a">> >>],
    [tag |-> "beauty", words |-> <<
        <<"m","a","q","u","i","l","l","a","j","e">>, <<"s","k","i","n","c","a","r","e">>,
        <<"u","ñ","a","s">>, <<"e","s","t","é","t","i","c","a">>, <<"p","e","l","o">>,
        <<"c","a","b","e","l","l","o">>, <<"d","e","r","m","o">>, <<"b","e","a","u","t","y">>,
        <<"c","o","s","m","é","t","i","c","a">>, <<"c","o","s","m","e","t","i","c","a">> >>],
    [tag |-> "fitness", words |-> <<
        <<"g","y","m">>, <<"t","r","e","i","n","o">>, <<"e","n","t","r","e","n","o">>,
        <<"p","r","o","t","e","í","n","a">>, <<"p","r","o","t","e","i","n","a">>,
        <<"d","i","e","t","a">>, <<"f","i","t","n","e","s","s">>,
        <<"p","e","r","d","e","r"," ","p","e","s","o">>, <<"p","é","r","d","i","d","a">>,
        <<"m","u","s","c","u","l","a","c","i","ó","n">>,
        <<"m","u","s","c","u","l","a","c","i","o","n">> >>],
    [tag |-> "tech", words |-> <<
        <<"a","p","p","s">>, <<"g","a","d","g","e","t">>, <<"r","e","v","i","e","w">>,
        <<"i","p","h","o","n","e">>, <<"a","n","d","r","o","i","d">>,
        <<"s","o","f","t","w","a","r","e">>, <<"s","a","a","s">>,
        <<"t","e","c","n","o","l","o","g","í","a">>, <<"t","e","c","n","o","l","o","g","i","a">>,
        <<"a","i">>, <<"i","a">> >>],
    [tag |-> "family", words |-> <<
        <<"m","a","m","á">>, <<"m","a","m","a">>, <<"h","i","j","o","s">>,
        <<"m","a","t","e","r","n","i","d","a","d">>, <<"f","a","m","i","l","i","a">>,
        <<"f","a","m","í","l","i","a">>, <<"c","r","i","a","n","z","a">>, <<"b","e","b","é">>,
        <<"b","e","b","e">>, <<"p","a","t","e","r","n","i","d","a","d">> >>],
    [tag |-> "travel", words |-> <<
        <<"v","i","a","j","e">>, <<"v","i","a","g","e","m">>, <<"t","r","a","v","e","l">>,
        <<"h","o","t","e","l">>, <<"r","u","t","a">>, <<"p","l","a","y","a">>,
        <<"a","e","r","o","p","u","e","r","t","o">>, <<"t","u","r","i","s","m","o">>,
        <<"t","r","i","p">> >>],
    [tag |-> "fashion", words |-> <<
        <<"m","o","d","a">>, <<"o","u","t","f","i","t">>, <<"l","o","o","k">>,
        <<"s","t","r","e","e","t","w","e","a","r">>, <<"r","o","p","a">>,
        <<"z","a","p","a","t","o","s">>, <<"f","a","s","h","i","o","n">> >>]
  >>

UpperChars ==
  <<"A","B","C","D","E","F","G","H","I","J","K","L","M","N","O","P","Q","R","S","T","U","V",
    "W","X","Y","Z","Á","É","Í","Ñ","Ó","Ú">>
LowerChars ==
  <<"a","b","c","d","e","f","g","h","i","j","k","l","m","n","o","p","q","r","s","t","u","v",
    "w","x","y","z","á","é","í","ñ","ó","ú">>

\* String.prototype.toLowerCase, one character.
LowerChar(ch) ==
  IF \E i \in 1..Len(UpperChars) : UpperChars[i] = ch
  THEN LowerChars[CHOOSE i \in 1..Len(UpperChars) : UpperChars[i] = ch]
  ELSE ch

toLowerCase(s) == [i \in 1..Len(s) |-> LowerChar(s[i])]

\* String.prototype.includes: w occurs in text as a contiguous substring.
includes(text, w) ==
  \E i \in 0..(Len(text) - Len(w)) : \A j \in 1..Len(w) : text[i + j] = w[j]

\* The keywords of one dictionary found in the text, in dictionary order.
Matched(text, words) == SelectSeq(words, LAMBDA w : includes(text, w))

\* Mutant: an entry goes before the entries of equal score (the sort not stable).
RECURSIVE InsertDesc_unstable(_, _)
InsertDesc_unstable(sorted, e) ==
  IF sorted = <<>> THEN <<e>>
  ELSE IF e.score >= Head(sorted).score THEN <<e>> \o sorted
  ELSE <<Head(sorted)>> \o InsertDesc_unstable(Tail(sorted), e)

\* Array.prototype.sort((a,b) => b[1]-a[1]): a stable sort, highest score first.
RECURSIVE InsertDesc(_, _)
InsertDesc(sorted, e) ==
  IF sorted = <<>> THEN <<e>>
  ELSE IF e.score > Head(sorted).score THEN <<e>> \o sorted
  ELSE <<Head(sorted)>> \o InsertDesc(Tail(sorted), e)

\* Mutant: the entries left in dictionary order.
SortDesc_unsorted(entries) == entries

RECURSIVE SortDesc(_)
SortDesc(entries) ==
  IF entries = <<>> THEN <<>>
  ELSE InsertDesc(SortDesc(SubSeq(entries, 1, Len(entries) - 1)), entries[Len(entries)])

RECURSIVE SumScores(_)
SumScores(entries) ==
  IF entries = <<>> THEN 0 ELSE Head(entries).score + SumScores(Tail(entries))

\* Mutant: the quotient truncated to two decimals.
ToFixed2_trunc(p, t) == (100 * p) \div t

\* Number((p / t).toFixed(2)), in hundredths: p / t rounded to two decimals, a tie
\* going up (exact for the totals the bounded texts reach; p / t is a tie only
\* when 8 divides t).
ToFixed2(p, t) == (200 * p + t) \div (2 * t)

FirstN(s, n) == SubSeq(s, 1, Min2(Len(s), n))

\* Mutant: without the fallback to general, the first-ranked tag is reported.
classifyNiche_noFallback(bio, declared) ==
  LET text == toLowerCase(bio \o <<" ">> \o declared)
      found == [k \in 1..Len(DICTS) |-> Matched(text, DICTS[k].words)]
      scores == [k \in 1..Len(DICTS) |-> [tag |-> DICTS[k].tag, score |-> Len(found[k]), k |-> k]]
      evidence == [k \in 1..Len(DICTS) |-> FirstN(found[k], 8)]
      ranked == SortDesc(scores)
      primary == ranked[1]
      secondary == ranked[2]
      sum == SumScores(ranked)
      totalHits == IF sum = 0 THEN 1 ELSE sum
  IN  [ primary_niche |-> primary.tag,
        secondary_niches |->
          IF primary.score = 0 THEN <<>>
          ELSE IF secondary.score > 0 THEN <<secondary.tag>> ELSE <<>>,
        confidence |-> ToFixed2(primary.score, totalHits),
        evidence_keywords |-> FirstN(evidence[primary.k], 8) ]

classifyNiche(bio, declared) ==
  LET text == toLowerCase(bio \o <<" ">> \o declared)
      found == [k \in 1..Len(DICTS) |-> Matched(text, DICTS[k].words)]
      scores == [k \in 1..Len(DICTS) |-> [tag |-> DICTS[k].tag, score |-> Len(found[k]), k |-> k]]
      evidence == [k \in 1..Len(DICTS) |-> FirstN(found[k], 8)]
      ranked == SortDesc(scores)
      primary == ranked[1]
      secondary == ranked[2]
      sum == SumScores(ranked)
      totalHits == IF sum = 0 THEN 1 ELSE sum
  IN  [ primary_niche |-> IF primary.score = 0 THEN "general" ELSE primary.tag,
        secondary_niches |->
          IF primary.score = 0 THEN <<>>
          ELSE IF secondary.score > 0 THEN <<secondary.tag>> ELSE <<>>,
        confidence |-> ToFixed2(primary.score, totalHits),
        evidence_keywords |-> FirstN(evidence[primary.k], 8) ]

(***************************************************************************)
(* server/lib/scoring.js : brand target mapping                            *)
(***************************************************************************)

BRAND_MAP ==
  [ food |->
      [ local |-> <<"restaurantes locais","dark kitchens","cafés","eventos gastronômicos","apps de reservas">>,
        ecommerce |-> <<"utensílios de cozinha","assinatura gourmet","boxes de comida">> ],
    beauty |->
      [ local |-> <<"clínicas estéticas","salões","dermoclínicas">>,
        ecommerce |-> <<"skincare DTC","makeup","haircare">> ],
    fitness |->
      [ local |-> <<"academias","studios de treino","personal training">>,
        ecommerce |-> <<"roupa esportiva","acessórios fitness">> ],
    tech |->
      [ local |-> <<"assistência técnica","lojas de acessórios","coworkings">>,
        ecommerce |-> <<"gadgets","apps/SaaS","fintechs">> ],
    family |->
      [ local |-> <<"escolas/atividades","lojas infantis","serviços familiares">>,
        ecommerce |-> <<"produtos baby","brinquedos","assinaturas educativas">> ],
    travel |->
      [ local |-> <<"agências locais","tours","guias">>,
        ecommerce |-> <<"malas","acessórios viagem","seguros">> ],
    fashion |->
      [ local |-> <<"boutiques","barbearias/estilo","fotografia">>,
        ecommerce |-> <<"streetwear","acessórios","calçados">> ],
    general |->
      [ local |-> <<"serviços locais","eventos","restaurantes">>,
        ecommerce |-> <<"e-commerce geral","apps","produtos de alta rotatividade">> ] ]

\* The property names every object literal inherits from Object.prototype.
ObjectPrototype ==
  { "constructor", "toString", "toLocaleString", "valueOf", "hasOwnProperty",
    "isPrototypeOf", "propertyIsEnumerable", "__proto__", "__defineGetter__",
    "__defineSetter__", "__lookupGetter__", "__lookupSetter__" }

\* JavaScript undefined, and a defined value, as values of one shape.
Undefined == <<>>
Defined(v) == <<v>>

\* obj[key] for a property the object may lack.
Prop(obj, key) == IF key \in DOMAIN obj THEN Defined(obj[key]) ELSE Undefined

\* BRAND_MAP[niche] || BRAND_MAP.general.  The lookup finds an own entry of the
\* literal, or else a member inherited from Object.prototype (a function or an
\* object: truthy, and with no local or ecommerce property), or else undefined.
buildBrandTargets(niche) ==
  LET map == IF niche \in DOMAIN BRAND_MAP THEN BRAND_MAP[niche]
             ELSE IF niche \in ObjectPrototype THEN [inherited |-> niche]
             ELSE BRAND_MAP.general
  IN  [local |-> Prop(map, "local"), ecommerce |-> Prop(map, "ecommerce")]

(***************************************************************************)
(* server/index.js : the store and the request handlers                    *)
(*                                                                         *)
(* A table is the sequence of its rows in insertion order; a row's place   *)
(* in the sequence stands for its nanoid() key.  creators is keyed by id.  *)
(* Timestamps (nowIso()) are integers: ISO strings of one format compare   *)
(* as the instants they denote.  Four tables are only ever inserted into    *)
(* and never read by any handler: audit_log, profile_snapshots,            *)
(* content_metrics_daily and deletion_requests.  The model keeps the one   *)
(* effect such an insert has on a handler, that it may throw, and no copy  *)
(* of the rows.  Columns no handler reads back (names, phone, tokens,      *)
(* created_at/updated_at) are left out of the rows.  Of what a handler     *)
(* answers, the model keeps what the callback's catch prints: the function *)
(* the error was thrown in (the top of the stack console.error shows).     *)
(***************************************************************************)

\* Bounds of the model.
MaxAccounts == 2
MaxTime == 1
MaxInflight == 2

\* The ids nanoid() hands to creators, in the order the model hands them out.
CreatorIdSeq == <<"c1", "c2">>
CreatorIds == {CreatorIdSeq[i] : i \in 1..Len(CreatorIdSeq)}

VARIABLES
  creators,              \* id -> [email, declared_category, status]
  consent_records,       \* rows [creator_id, consent_type, granted]
  connected_accounts,    \* rows [creator_id, status]
  niche_classification,  \* rows [creator_id, primary_niche, ..., computed_at]
  creator_scores,        \* rows [creator_id, score_total, ..., computed_at]
  brand_targets,         \* rows [creator_id, target_type, segment, suggested_brands, generated_at]
  now,                   \* the wall clock nowIso() reads
  inflight,              \* OAuth callbacks suspended at an await: rows [creator_id, awaiting]
  logged,                \* what the step just taken printed with console.error, if anything
  call                   \* a pure function under test: [fn, args, done, ret]

tables ==
  <<creators, consent_records, connected_accounts, niche_classification, creator_scores,
    brand_targets>>

vars == <<tables, now, inflight, logged, call>>

\* The store as one value, for the statements of a handler to run against.
DB ==
  [ creators |-> creators, consent_records |-> consent_records,
    connected_accounts |-> connected_accounts,
    niche_classification |-> niche_classification, creator_scores |-> creator_scores,
    brand_targets |-> brand_targets ]

Commit(db) ==
  /\ creators' = db.creators
  /\ consent_records' = db.consent_records
  /\ connected_accounts' = db.connected_accounts
  /\ niche_classification' = db.niche_classification
  /\ creator_scores' = db.creator_scores
  /\ brand_targets' = db.brand_targets

\* Mutant: INSERT OR REPLACE keyed by creator, where the code has a plain INSERT.
Apply_replace(db, s) ==
  CASE s.op = "insert" ->
         [db EXCEPT ![s.table] =
            Append(SelectSeq(@, LAMBDA row : row.creator_id # s.row.creator_id), s.row)]
    [] s.op = "insert_creator" ->
         [db EXCEPT !.creators = [i \in DOMAIN @ \cup {s.id} |-> IF i = s.id THEN s.row ELSE @[i]]]
    [] s.op = "set_creator_status" ->
         [db EXCEPT !.creators =
            [i \in DOMAIN @ |-> IF i = s.id THEN [@[i] EXCEPT !.status = s.status] ELSE @[i]]]
    [] s.op = "revoke_accounts" ->
         [db EXCEPT !.connected_accounts =
            [i \in DOMAIN @ |->
               IF @[i].creator_id = s.id /\ @[i].status = "active"
               THEN [@[i] EXCEPT !.status = "revoked"] ELSE @[i]]]
    [] s.op = "insert_unread" -> db

\* One db.prepare(...).run(...): the store after the statement.
Apply(db, s) ==
  CASE s.op = "insert" ->
         [db EXCEPT ![s.table] = Append(@, s.row)]
    [] s.op = "insert_creator" ->
         [db EXCEPT !.creators = [i \in DOMAIN @ \cup {s.id} |-> IF i = s.id THEN s.row ELSE @[i]]]
    [] s.op = "set_creator_status" ->
         [db EXCEPT !.creators =
            [i \in DOMAIN @ |-> IF i = s.id THEN [@[i] EXCEPT !.status = s.status] ELSE @[i]]]
    [] s.op = "revoke_accounts" ->
         [db EXCEPT !.connected_accounts =
            [i \in DOMAIN @ |->
               IF @[i].creator_id = s.id /\ @[i].status = "active"
               THEN [@[i] EXCEPT !.status = "revoked"] ELSE @[i]]]
    [] s.op = "insert_unread" -> db

\* The statements of a handler run in order, each committed as it runs (no
\* transaction is opened); statement number fail throws and ends the handler,
\* fail = 0 when none throws.
RECURSIVE RunFrom(_, _, _, _)
RunFrom(db, stmts, i, fail) ==
  IF i > Len(stmts) \/ i = fail THEN db
  ELSE RunFrom(Apply(db, stmts[i]), stmts, i + 1, fail)

Exec(db, stmts, fail) == RunFrom(db, stmts, 1, fail)

\* An INSERT into a table no handler reads.
InsertUnread(table) == [op |-> "insert_unread", table |-> table]

logAudit(action, target_id) == InsertUnread("audit_log")

SetStatus(id, st) == [op |-> "set_creator_status", id |-> id, status |-> st]

Insert(table, row) == [op |-> "insert", table |-> table, row |-> row]

(***************************************************************************)
(* server/index.js : runQualification                                      *)
(***************************************************************************)

\* The stand-in signals of the starter.
followers == 1000
likes == 50
comments == 5
contentCount30d == 8
reachAvailable == FALSE

\* v ?? d, for an optional number v.
Coalesce(v, d) == IF IsNumber(v) THEN v ELSE Num(d)

\* Lines 196-204: the score computed from the signals and the classifier's confidence.
ScoreOf(confidence) ==
  LET er == Ratio(likes + comments, followers)
      erScore == computeErScore(er)
      consistencyScore == computeConsistencyScore(Ratio(contentCount30d, 4))
      nicheScore == computeNicheScore(confidence)
      reachScore == Coalesce(computeReachScore(reachAvailable, Ratio(0, 1)), 0)
      fraudPenalty == computeFraudPenalty(er, followers, contentCount30d)
      total == computeTotalScore(
                 [erScore |-> erScore, reachScore |-> reachScore,
                  consistencyScore |-> consistencyScore, nicheScore |-> nicheScore,
                  fraudPenalty |-> fraudPenalty, reachAvailable |-> reachAvailable])
  IN  [score_total |-> total, grade |-> grade(total), er_score |-> erScore,
       reach_score |-> reachScore, consistency_score |-> consistencyScore,
       niche_score |-> nicheScore, fraud_penalty |-> fraudPenalty]

\* creator?.declared_category || "" for the row SELECTed by id.
DeclaredOf(db, creator_id) ==
  IF creator_id \in DOMAIN db.creators THEN db.creators[creator_id].declared_category ELSE <<>>

NicheRow(creator_id, niche, ts) ==
  [creator_id |-> creator_id, primary_niche |-> niche.primary_niche,
   secondary_niches |-> niche.secondary_niches, confidence |-> niche.confidence,
   evidence_keywords |-> niche.evidence_keywords, model_version |-> "dict-v1",
   computed_at |-> ts]

\* Mutant: the engagement and niche sub-scores written to each other's column.
ScoreRow_swapped(creator_id, s, ts) ==
  [creator_id |-> creator_id, score_total |-> s.score_total, grade |-> s.grade,
   er_score |-> s.niche_score, reach_score |-> s.reach_score,
   consistency_score |-> s.consistency_score, niche_score |-> s.er_score,
   fraud_penalty |-> s.fraud_penalty, scoring_version |-> "score-v1", computed_at |-> ts]

ScoreRow(creator_id, s, ts) ==
  [creator_id |-> creator_id, score_total |-> s.score_total, grade |-> s.grade,
   er_score |-> s.er_score, reach_score |-> s.reach_score,
   consistency_score |-> s.consistency_score, niche_score |-> s.niche_score,
   fraud_penalty |-> s.fraud_penalty, scoring_version |-> "score-v1", computed_at |-> ts]

BrandRow(creator_id, type, segment, brands, ts) ==
  [creator_id |-> creator_id, target_type |-> type, segment |-> segment,
   suggested_brands |-> brands, generated_at |-> ts]

\* Mutant: the second brand-target row written with the first one's type and list.
runQualification_twiceLocal(db, creator_id, account_id, ts) ==
  LET niche == classifyNiche(<<>>, DeclaredOf(db, creator_id))
      targets == buildBrandTargets(niche.primary_niche)
  IN  << InsertUnread("profile_snapshots"),
         InsertUnread("content_metrics_daily"),
         Insert("niche_classification", NicheRow(creator_id, niche, ts)),
         Insert("creator_scores", ScoreRow(creator_id, ScoreOf(niche.confidence), ts)),
         Insert("brand_targets", BrandRow(creator_id, "local", niche.primary_niche, Val(targets.local), ts)),
         Insert("brand_targets", BrandRow(creator_id, "local", niche.primary_niche, Val(targets.local), ts)),
         SetStatus(creator_id, "qualified"),
         logAudit("QUALIFIED", creator_id) >>

\* Mutant: the status is set to qualified before the rows are written.
runQualification_statusFirst(db, creator_id, account_id, ts) ==
  LET niche == classifyNiche(<<>>, DeclaredOf(db, creator_id))
      targets == buildBrandTargets(niche.primary_niche)
  IN  << InsertUnread("profile_snapshots"),
         InsertUnread("content_metrics_daily"),
         SetStatus(creator_id, "qualified"),
         Insert("niche_classification", NicheRow(creator_id, niche, ts)),
         Insert("creator_scores", ScoreRow(creator_id, ScoreOf(niche.confidence), ts)),
         Insert("brand_targets", BrandRow(creator_id, "local", niche.primary_niche, Val(targets.local), ts)),
         Insert("brand_targets",
                BrandRow(creator_id, "ecommerce", niche.primary_niche, Val(targets.ecommerce), ts)),
         logAudit("QUALIFIED", creator_id) >>

\* The statements of runQualification, in order.
runQualification(db, creator_id, account_id, ts) ==
  LET niche == classifyNiche(<<>>, DeclaredOf(db, creator_id))
      targets == buildBrandTargets(niche.primary_niche)
  IN  << InsertUnread("profile_snapshots"),
         InsertUnread("content_metrics_daily"),
         Insert("niche_classification", NicheRow(creator_id, niche, ts)),
         Insert("creator_scores", ScoreRow(creator_id, ScoreOf(niche.confidence), ts)),
         Insert("brand_targets", BrandRow(creator_id, "local", niche.primary_niche, Val(targets.local), ts)),
         Insert("brand_targets",
                BrandRow(creator_id, "ecommerce", niche.primary_niche, Val(targets.ecommerce), ts)),
         SetStatus(creator_id, "qualified"),
         logAudit("QUALIFIED", creator_id) >>

(***************************************************************************)
(* server/index.js : request handlers                                      *)
(***************************************************************************)

\* Request bodies of POST /api/lead that pass LeadSchema.
Emails == { <<"a">>, <<"A">>, <<"b">> }
Categories == { <<>>, <<"S","u","s","h","i">> }
ConsentInputs == [metrics_check : BOOLEAN, share_with_brands : BOOLEAN, marketing_contact : BOOLEAN]
LeadBodies ==
  [email : Emails, declared_category : Categories, consents : ConsentInputs]

Granted == [metrics_check |-> TRUE, share_with_brands |-> FALSE, marketing_contact |-> FALSE]
Refused == [metrics_check |-> FALSE, share_with_brands |-> FALSE, marketing_contact |-> FALSE]

\* The bodies the requests of Spec carry.
SomeLeadBodies ==
  { [email |-> <<"a">>, declared_category |-> <<"S","u","s","h","i">>, consents |-> Granted],
    [email |-> <<"A">>, declared_category |-> <<"S","u","s","h","i">>, consents |-> Granted],
    [email |-> <<"b">>, declared_category |-> <<>>, consents |-> Granted],
    [email |-> <<"b">>, declared_category |-> <<>>, consents |-> Refused] }

\* nanoid(): an id no row carries yet.
Fresh(id) == id \notin DOMAIN creators

FreshIds == {i \in 1..Len(CreatorIdSeq) : Fresh(CreatorIdSeq[i])}

NewCreatorId == CreatorIdSeq[CHOOSE i \in FreshIds : \A j \in FreshIds : i <= j]

EmailTaken(db, email) == \E i \in DOMAIN db.creators : db.creators[i].email = email

ConsentRow(id, type, v) ==
  [creator_id |-> id, consent_type |-> type, granted |-> IF v THEN 1 ELSE 0]

LeadStatements(id, data) ==
  << [op |-> "insert_creator", id |-> id,
      row |-> [email |-> toLowerCase(data.email),
               declared_category |-> data.declared_category, status |-> "lead"]],
     Insert("consent_records", ConsentRow(id, "metrics_check", data.consents.metrics_check)),
     Insert("consent_records",
            ConsentRow(id, "share_with_brands", data.consents.share_with_brands)),
     Insert("consent_records",
            ConsentRow(id, "marketing_contact", data.consents.marketing_contact)),
     logAudit("LEAD_CREATED", id) >>

\* POST /api/lead, with a body that parses; statement number fail throws.
Lead(data, fail) ==
  /\ FreshIds # {}
  /\ IF ~data.consents.metrics_check
     THEN UNCHANGED tables
     ELSE LET id == NewCreatorId
              \* the UNIQUE index on email makes the first INSERT throw
              f == IF EmailTaken(DB, toLowerCase(data.email)) THEN 1 ELSE fail
          IN  Commit(Exec(DB, LeadStatements(id, data), f))
  /\ logged' = "none"
  /\ UNCHANGED <<now, inflight, call>>

\* POST /api/lead, with a body LeadSchema rejects: 400.
LeadRejected ==
  /\ logged' = "none"
  /\ UNCHANGED <<tables, now, inflight, call>>

\* GET /api/oauth/meta/start: the creator is looked up, the start is logged.
OAuthStart(creator_id, fail) ==
  /\ IF creator_id \in DOMAIN creators
     THEN Commit(Exec(DB, <<logAudit("OAUTH_START", creator_id)>>, fail))
     ELSE UNCHANGED tables
  /\ logged' = "none"
  /\ UNCHANGED <<now, inflight, call>>

InflightTotal == Len(inflight)

RemoveAt(s, i) == SubSeq(s, 1, i - 1) \o SubSeq(s, i + 1, Len(s))

\* GET /api/oauth/meta/callback, up to the first await (exchangeCodeForToken).
\* The query's state names any creator id, known or not.
CallbackStart(creator_id) ==
  /\ Len(connected_accounts) + InflightTotal < MaxAccounts
  /\ InflightTotal < MaxInflight
  /\ inflight' = Append(inflight, [creator_id |-> creator_id, awaiting |-> "exchangeCodeForToken"])
  /\ logged' = "none"
  /\ UNCHANGED <<tables, now, call>>

\* The same route answering 400: an error parameter, a missing code or state,
\* or a state that is not JSON.
CallbackRejected ==
  /\ logged' = "none"
  /\ UNCHANGED <<tables, now, inflight, call>>

\* exchangeCodeForToken settles: fetchMe is awaited next, or the catch answers 500.
TokenSettles(r, ok) ==
  /\ r \in DOMAIN inflight
  /\ inflight[r].awaiting = "exchangeCodeForToken"
  /\ inflight' = IF ok THEN [inflight EXCEPT ![r].awaiting = "fetchMe"] ELSE RemoveAt(inflight, r)
  /\ logged' = IF ok THEN "none" ELSE "exchangeCodeForToken"
  /\ UNCHANGED <<tables, now, call>>

\* Mutant: the qualification run is not part of the handler's synchronous tail.
CallbackStatements_deferred(db, creator_id, ts) ==
  LET account_id == Len(db.connected_accounts) + 1
  IN  << Insert("connected_accounts", [creator_id |-> creator_id, status |-> "active"]),
         SetStatus(creator_id, "connected"),
         logAudit("OAUTH_CONNECTED", account_id) >>

CallbackStatements(db, creator_id, ts) ==
  LET account_id == Len(db.connected_accounts) + 1
  IN  << Insert("connected_accounts", [creator_id |-> creator_id, status |-> "active"]),
         SetStatus(creator_id, "connected"),
         logAudit("OAUTH_CONNECTED", account_id) >>
      \o runQualification(db, creator_id, account_id, ts)

\* The function a throw of statement f of CallbackStatements comes from: the
\* handler itself for its three statements, runQualification for the rest.
ThrownIn(f) ==
  IF f = 0 THEN "none" ELSE IF f <= 3 THEN "callback" ELSE "runQualification"

\* fetchMe rejects: the catch answers 500.
MeFails(r) ==
  /\ r \in DOMAIN inflight
  /\ inflight[r].awaiting = "fetchMe"
  /\ inflight' = RemoveAt(inflight, r)
  /\ logged' = "fetchMe"
  /\ UNCHANGED <<tables, now, call>>

\* fetchMe resolves: the rest of the callback, runQualification included, runs
\* without another await that yields to a request handler.  The FOREIGN KEY of
\* connected_accounts.creator_id (enforced by better-sqlite3's default) makes the
\* first INSERT throw when the query's state names no creator.
CallbackFinish(r, fail) ==
  /\ r \in DOMAIN inflight
  /\ inflight[r].awaiting = "fetchMe"
  /\ LET creator_id == inflight[r].creator_id
         f == IF creator_id \notin DOMAIN creators THEN 1 ELSE fail
     IN  /\ Commit(Exec(DB, CallbackStatements(DB, creator_id, now), f))
         /\ logged' = ThrownIn(f)
  /\ inflight' = RemoveAt(inflight, r)
  /\ UNCHANGED <<now, call>>

\* GET /api/creator/:id/overview reads and writes nothing.
Overview(creator_id) ==
  /\ logged' = "none"
  /\ UNCHANGED <<tables, now, inflight, call>>

\* POST /api/creator/:id/share-enable
ShareEnable(creator_id, fail) ==
  /\ Commit(Exec(DB, << SetStatus(creator_id, "share_enabled"),
                        logAudit("SHARE_ENABLED", creator_id) >>, fail))
  /\ logged' = "none"
  /\ UNCHANGED <<now, inflight, call>>

\* POST /api/creator/:id/disconnect
Disconnect(creator_id, fail) ==
  /\ Commit(Exec(DB, << [op |-> "revoke_accounts", id |-> creator_id],
                        SetStatus(creator_id, "revoked"),
                        logAudit("DISCONNECT", creator_id) >>, fail))
  /\ logged' = "none"
  /\ UNCHANGED <<now, inflight, call>>

\* POST /api/creator/:id/delete
DeleteRequest(creator_id, fail) ==
  /\ Commit(Exec(DB, << InsertUnread("deletion_requests"),
                        logAudit("DELETE_REQUESTED", creator_id) >>, fail))
  /\ logged' = "none"
  /\ UNCHANGED <<now, inflight, call>>

\* The wall clock advances.
Tick ==
  /\ now < MaxTime
  /\ now' = now + 1
  /\ UNCHANGED <<tables, inflight, logged, call>>

IdleCall == [fn |-> "none", args |-> <<>>, done |-> FALSE, ret |-> 0]

Init ==
  /\ creators = <<>>
  /\ consent_records = <<>>
  /\ connected_accounts = <<>>
  /\ niche_classification = <<>>
  /\ creator_scores = <<>>
  /\ brand_targets = <<>>
  /\ now = 0
  /\ inflight = <<>>
  /\ logged = "none"
  /\ call = IdleCall

\* Which statement of a handler throws: none, or any one of them.
Fails(n) == 0..n

Next ==
  \/ \E data \in SomeLeadBodies, fail \in {0, 1} : Lead(data, fail)
  \/ LeadRejected
  \/ \E c \in CreatorIds, fail \in Fails(1) : OAuthStart(c, fail)
  \/ \E c \in CreatorIds : CallbackStart(c)
  \/ CallbackRejected
  \/ \E r \in 1..MaxInflight, ok \in BOOLEAN : TokenSettles(r, ok)
  \/ \E r \in 1..MaxInflight : MeFails(r)
  \/ \E r \in 1..MaxInflight, fail \in Fails(11) : CallbackFinish(r, fail)
  \/ \E c \in CreatorIds : Overview(c)
  \/ \E c \in CreatorIds, fail \in Fails(2) : ShareEnable(c, fail)
  \/ \E c \in CreatorIds, fail \in Fails(3) : Disconnect(c, fail)
  \/ \E c \in CreatorIds, fail \in Fails(2) : DeleteRequest(c, fail)
  \/ Tick

Spec == Init /\ [][Next]_vars

(***************************************************************************)
(* computeTotalScore on its own: the arguments range over the values the   *)
(* step functions return, a reach score over null, the 0 the pipeline      *)
(* passes for null, and the values of computeReachScore.                   *)
(***************************************************************************)

ErScores == {20, 45, 70, 100}
ConsistencyScores == {20, 40, 70, 100}
NicheScores == {35, 55, 75, 100}
ReachScores == {Null, Num(0), Num(35), Num(55), Num(75), Num(100)}
FraudPenalties == {0, 10, 20, 30}

TotalArgs ==
  [erScore : ErScores, reachScore : ReachScores, consistencyScore : ConsistencyScores,
   nicheScore : NicheScores, fraudPenalty : FraudPenalties, reachAvailable : BOOLEAN]

InitScore ==
  /\ creators = <<>>
  /\ consent_records = <<>>
  /\ connected_accounts = <<>>
  /\ niche_classification = <<>>
  /\ creator_scores = <<>>
  /\ brand_targets = <<>>
  /\ now = 0
  /\ inflight = <<>>
  /\ logged = "none"
  /\ call \in {[fn |-> "computeTotalScore", args |-> a, done |-> FALSE, ret |-> 0] : a \in TotalArgs}

ReturnTotalScore ==
  /\ call.fn = "computeTotalScore"
  /\ ~call.done
  /\ call' = [call EXCEPT !.done = TRUE, !.ret = computeTotalScore(call.args)]
  /\ UNCHANGED <<tables, now, inflight, logged>>

NextScore == ReturnTotalScore

SpecScore == InitScore /\ [][NextScore]_vars

(***************************************************************************)
(* The step functions on their own: computeFraudPenalty, grade,            *)
(* computeErScore and computeNicheScore, each called once with arguments   *)
(* from a grid that has every threshold of the function on it and values   *)
(* on both sides of it.                                                    *)
(***************************************************************************)

\* No request has been handled.
EmptyStore ==
  /\ creators = <<>>
  /\ consent_records = <<>>
  /\ connected_accounts = <<>>
  /\ niche_classification = <<>>
  /\ creator_scores = <<>>
  /\ brand_targets = <<>>
  /\ now = 0
  /\ inflight = <<>>
  /\ logged = "none"

CallOf(fn, args) == [fn |-> fn, args |-> args, done |-> FALSE, ret |-> 0]

\* Engagement rates n / 2000 (steps of 0.0005) up to MaxErNum / 2000.
MaxErNum == 260
ErInputs == {Ratio(n, 2000) : n \in 0..MaxErNum}

\* Arguments of computeFraudPenalty.
FraudErInputs == {Ratio(n, 1000) : n \in {0, 7, 8, 9, 120, 121, 500}}
FollowerInputs == {0, 1000, 20000, 20001, 50000, 50001}
MaxContentCount == 8
FraudArgs ==
  [er : FraudErInputs, followers : FollowerInputs, contentCount30d : 0..MaxContentCount]

\* Totals (integers) and confidences (hundredths).
MaxTotal == 100
MaxConfidence == 100

InitSteps ==
  /\ EmptyStore
  /\ call \in {CallOf("computeFraudPenalty", a) : a \in FraudArgs}
             \cup {CallOf("grade", t) : t \in 0..MaxTotal}
             \cup {CallOf("computeErScore", er) : er \in ErInputs}
             \cup {CallOf("computeNicheScore", c) : c \in 0..MaxConfidence}

\* The call record once the function has returned ret.
Done(ret) == [call EXCEPT !.done = TRUE, !.ret = ret]

Pending(fn) == call.fn = fn /\ ~call.done

ReturnFraudPenalty ==
  /\ Pending("computeFraudPenalty")
  /\ call' = Done(computeFraudPenalty(call.args.er, call.args.followers,
                                      call.args.contentCount30d))
  /\ UNCHANGED <<tables, now, inflight, logged>>

ReturnGrade ==
  /\ Pending("grade")
  /\ call' = Done(grade(call.args))
  /\ UNCHANGED <<tables, now, inflight, logged>>

ReturnErScore ==
  /\ Pending("computeErScore")
  /\ call' = Done(computeErScore(call.args))
  /\ UNCHANGED <<tables, now, inflight, logged>>

ReturnNicheScore ==
  /\ Pending("computeNicheScore")
  /\ call' = Done(computeNicheScore(call.args))
  /\ UNCHANGED <<tables, now, inflight, logged>>

NextSteps ==
  \/ ReturnFraudPenalty
  \/ ReturnGrade
  \/ ReturnErScore
  \/ ReturnNicheScore

SpecSteps == InitSteps /\ [][NextSteps]_vars

(***************************************************************************)
(* The classifier and the brand mapper on their own: classifyNiche called  *)
(* once with a bio of up to two words and a declared category, and         *)
(* buildBrandTargets called once with a tag.                               *)
(***************************************************************************)

\* Words of a bio: with no keyword in them, with one keyword (also in upper case
\* and with an accent), with keywords of two dictionaries ("viaje" and "familia"
\* contain "ia"), with two keywords of one dictionary, and the two halves of the
\* keyword "perder peso".
BioWords ==
  { <<"l","o","v","e","r">>,
    <<"s","u","s","h","i">>,
    <<"r","a","m","e","n">>,
    <<"g","y","m">>,
    <<"v","i","a","j","e">>,
    <<"f","a","m","i","l","i","a">>,
    <<"m","o","d","a">>,
    <<"M","E","N","Ú">>,
    <<"t","e","c","n","o","l","o","g","i","a">>,
    <<"p","e","r","d","e","r">>,
    <<"p","e","s","o">> }

DeclaredInputs ==
  { <<>>,
    <<"S","u","s","h","i">>,
    <<"O","t","h","e","r">>,
    <<"p","e","s","o">>,
    <<"g","y","m">> }

\* One or two words, separated by a space.
BioInputs ==
  {<<>>} \cup BioWords \cup {a \o <<" ">> \o b : a \in BioWords, b \in BioWords}

ClassifyArgs == [bio : BioInputs, declared : DeclaredInputs]

\* The tags the classifier produces, tags with no entry, and names that
\* Object.prototype defines.
TagInputs ==
  { "food", "beauty", "fitness", "tech", "family", "travel", "fashion", "general",
    "", "unknown", "Food", "constructor", "toString", "__proto__" }

InitNiche ==
  /\ EmptyStore
  /\ call \in {CallOf("classifyNiche", a) : a \in ClassifyArgs}
             \cup {CallOf("buildBrandTargets", t) : t \in TagInputs}

ReturnClassifyNiche ==
  /\ Pending("classifyNiche")
  /\ call' = Done(classifyNiche(call.args.bio, call.args.declared))
  /\ UNCHANGED <<tables, now, inflight, logged>>

ReturnBrandTargets ==
  /\ Pending("buildBrandTargets")
  /\ call' = Done(buildBrandTargets(call.args))
  /\ UNCHANGED <<tables, now, inflight, logged>>

NextNiche ==
  \/ ReturnClassifyNiche
  \/ ReturnBrandTargets

SpecNiche == InitNiche /\ [][NextNiche]_vars

(***************************************************************************)
(* POST /api/lead on its own: every body that passes LeadSchema, and a     *)
(* throw at any of the five statements of the handler.                     *)
(***************************************************************************)

NextLead ==
  \/ \E data \in LeadBodies, fail \in Fails(5) : Lead(data, fail)
  \/ LeadRejected

SpecLead == Init /\ [][NextLead]_vars

(***************************************************************************)
(* What GET /api/creator/:id/overview reports                              *)
(***************************************************************************)

RowsOf(table, creator_id) == {i \in DOMAIN table : table[i].creator_id = creator_id}

\* Mutant: ORDER BY <key> ASC.
OrderByAsc(table, creator_id, key) ==
  LET S == RowsOf(table, creator_id)
      n == Cardinality(S)
  IN  { p \in [1..n -> S] :
          /\ \A a, b \in 1..n : a # b => p[a] # p[b]
          /\ \A a, b \in 1..n : a < b => table[p[a]][key] <= table[p[b]][key] }

\* WHERE creator_id=? ORDER BY <key> DESC: the orders the rows may come in; rows
\* with equal keys come in either order.
OrderByDesc(table, creator_id, key) ==
  LET S == RowsOf(table, creator_id)
      n == Cardinality(S)
  IN  { p \in [1..n -> S] :
          /\ \A a, b \in 1..n : a # b => p[a] # p[b]
          /\ \A a, b \in 1..n : a < b => table[p[a]][key] >= table[p[b]][key] }

\* ... LIMIT 1: the rows .get() may return (none when the creator has no row).
Limit1(orders) == {p[1] : p \in {q \in orders : Len(q) > 0}}

\* The row the overview reports as the creator's score or classification.
Latest(table, creator_id) == Limit1(OrderByDesc(table, creator_id, "computed_at"))

(***************************************************************************)
(* Properties                                                              *)
(***************************************************************************)

IsPrefix(s, t) == Len(s) <= Len(t) /\ SubSeq(t, 1, Len(s)) = s

\* The step ends the OAuth callback suspended as inflight[r].
Ends(r) == r \in DOMAIN inflight /\ inflight' = RemoveAt(inflight, r)

\* The step ends an OAuth callback in its catch, with an error thrown in
\* runQualification.
RunFails(r) == Ends(r) /\ logged' = "runQualification"

\* The step ends an OAuth callback past fetchMe with nothing thrown: its
\* runQualification has returned.
RunCompletes(r) == Ends(r) /\ inflight[r].awaiting = "fetchMe" /\ logged' = "none"

\* C1: when a step of runQualification fails, no classification, score or
\* brand-target row the run wrote before the failure is reported afterwards for
\* the creator: the rows the overview reports are rows that were there before.
C1_NoPartialWrites ==
  [][\A r \in 1..MaxInflight :
       RunFails(r) =>
         LET c == inflight[r].creator_id
         IN  /\ Latest(niche_classification', c) \subseteq DOMAIN niche_classification
             /\ Latest(creator_scores', c) \subseteq DOMAIN creator_scores
             /\ RowsOf(brand_targets', c) \subseteq DOMAIN brand_targets]_vars

\* C2: when runQualification fails at any of its statements, the creator's
\* status is the one the run started from (connected), not qualified.
C2_StatusKeptOnFailure ==
  [][\A r \in 1..MaxInflight :
       RunFails(r) => creators'[inflight[r].creator_id].status = "connected"]_vars

Rank(status) ==
  CASE status = "lead" -> 1
    [] status = "connected" -> 2
    [] status = "qualified" -> 3
    [] status = "share_enabled" -> 4
    [] status = "revoked" -> 5

\* C3: every change of a creator's status moves to a later stage of
\* lead -> connected -> qualified -> share_enabled -> revoked, never to an earlier one.
C3_LifecycleForward ==
  [][\A c \in DOMAIN creators :
       Rank(creators'[c].status) >= Rank(creators[c].status)]_vars

\* C4: a qualification run that completes adds exactly one classification row,
\* one score row and two brand-target rows (local, then ecommerce) for the
\* creator, all four with the same timestamp.
C4_FourRowsOneTimestamp ==
  [][\A r \in 1..MaxInflight :
       RunCompletes(r) =>
         LET c == inflight[r].creator_id
             n == Len(niche_classification)
             s == Len(creator_scores)
             b == Len(brand_targets)
         IN  /\ Len(niche_classification') = n + 1
             /\ Len(creator_scores') = s + 1
             /\ Len(brand_targets') = b + 2
             /\ niche_classification'[n + 1].creator_id = c
             /\ creator_scores'[s + 1].creator_id = c
             /\ brand_targets'[b + 1].creator_id = c
             /\ brand_targets'[b + 2].creator_id = c
             /\ {brand_targets'[b + 1].target_type, brand_targets'[b + 2].target_type}
                  = {"local", "ecommerce"}
             /\ creator_scores'[s + 1].computed_at = niche_classification'[n + 1].computed_at
             /\ brand_targets'[b + 1].generated_at = niche_classification'[n + 1].computed_at
             /\ brand_targets'[b + 2].generated_at = niche_classification'[n + 1].computed_at]_vars

\* A completed run has left its rows: a qualified creator with a classification,
\* a score and both brand-target rows of one timestamp.
C4_Witness ==
  \E c \in DOMAIN creators :
    /\ creators[c].status = "qualified"
    /\ \E i \in RowsOf(niche_classification, c), j \in RowsOf(creator_scores, c),
          k, l \in RowsOf(brand_targets, c) :
         /\ brand_targets[k].target_type = "local"
         /\ brand_targets[l].target_type = "ecommerce"
         /\ creator_scores[j].computed_at = niche_classification[i].computed_at
         /\ brand_targets[k].generated_at = niche_classification[i].computed_at
         /\ brand_targets[l].generated_at = niche_classification[i].computed_at

\* C5: reach data being unavailable in every run (reachAvailable is false), every
\* persisted score row holds null as its reach sub-score, not a number.
C5_ReachStoredAsNull ==
  \A i \in DOMAIN creator_scores : creator_scores[i].reach_score = Null

\* C6: the classification, score and brand-target tables only grow: every step
\* leaves the rows already written as they were.
C6_AppendOnly ==
  [][/\ IsPrefix(niche_classification, niche_classification')
     /\ IsPrefix(creator_scores, creator_scores')
     /\ IsPrefix(brand_targets, brand_targets')]_vars

\* A creator was connected twice and then disconnected, with a deletion
\* request possible at any point: two runs' rows and status revoked.
C6_Witness ==
  \E c \in DOMAIN creators :
    /\ creators[c].status = "revoked"
    /\ Cardinality(RowsOf(niche_classification, c)) >= 2
    /\ Cardinality(RowsOf(creator_scores, c)) >= 2
    /\ Cardinality(RowsOf(brand_targets, c)) >= 4

\* Every row the overview may report has the greatest timestamp of the creator's rows.
MostRecent(table, c) ==
  \A i \in Latest(table, c) :
    \A j \in RowsOf(table, c) : table[j].computed_at <= table[i].computed_at

\* Two rows of the creator share the creator's greatest timestamp.
TiedAtTop(table, c) ==
  \E i, j \in RowsOf(table, c) :
    /\ i # j
    /\ table[i].computed_at = table[j].computed_at
    /\ \A k \in RowsOf(table, c) : table[k].computed_at <= table[i].computed_at

\* C7 as claimed: the reported score and classification are the most recent by
\* timestamp, and that determines one row, also for runs that race.
C7_MostRecentUnambiguous ==
  \A c \in CreatorIds :
    /\ MostRecent(creator_scores, c) /\ MostRecent(niche_classification, c)
    /\ Cardinality(Latest(creator_scores, c)) <= 1
    /\ Cardinality(Latest(niche_classification, c)) <= 1

\* C7 as amended: the reported rows are most recent by timestamp, and that
\* determines one row unless two of the creator's rows share the greatest timestamp.
C7_MostRecentUnlessTied ==
  \A c \in CreatorIds :
    /\ MostRecent(creator_scores, c) /\ MostRecent(niche_classification, c)
    /\ Cardinality(Latest(creator_scores, c)) > 1 => TiedAtTop(creator_scores, c)
    /\ Cardinality(Latest(niche_classification, c)) > 1 => TiedAtTop(niche_classification, c)
    /\ ~TiedAtTop(creator_scores, c) /\ RowsOf(creator_scores, c) # {}
         => Cardinality(Latest(creator_scores, c)) = 1
    /\ ~TiedAtTop(niche_classification, c) /\ RowsOf(niche_classification, c) # {}
         => Cardinality(Latest(niche_classification, c)) = 1

\* Two runs for one of two creators at different instants: the order by
\* timestamp decides which row is reported.
C7_Witness ==
  \E c, d \in DOMAIN creators :
    /\ c # d
    /\ \E i, j \in RowsOf(creator_scores, c) :
         creator_scores[i].computed_at < creator_scores[j].computed_at
    /\ \E i, j \in RowsOf(niche_classification, c) :
         niche_classification[i].computed_at < niche_classification[j].computed_at

\* C8: computeTotalScore returns an integer in [0,100] for all sub-scores of the
\* step functions and all penalties, with and without reach.
C8_TotalInRange ==
  (call.fn = "computeTotalScore" /\ call.done) => call.ret \in 0..100

C8_Witness ==
  /\ call.fn = "computeTotalScore" /\ call.done
  /\ call.args.fraudPenalty = 30
  /\ call.args.erScore = 20
  /\ call.args.reachAvailable /\ IsNumber(call.args.reachScore)

\* round-half-up of h hundredths, then clamped to [0,100]: the integer r nearest
\* to h / 100 (r - 1/2 <= h/100 < r + 1/2), or the end of the range it is beyond.
IsRoundedClamped(h, t) ==
  \E r \in -100..200 :
    /\ 100 * r - 50 <= h /\ h < 100 * r + 50
    /\ t = IF r < 0 THEN 0 ELSE IF r > 100 THEN 100 ELSE r

\* C9: with a reach score available the total is
\* round(0.30 ER + 0.25 Reach + 0.20 Consistency + 0.15 Niche - 0.10 Penalty), without
\* it round(0.40 ER + 0.25 Consistency + 0.20 Niche - 0.15 Penalty), rounded half-up
\* and clamped to [0,100]; without reach the reachScore argument does not matter.
C9_TotalFormula ==
  (call.fn = "computeTotalScore" /\ call.done) =>
    LET a == call.args
    IN  IF a.reachAvailable /\ a.reachScore # Null
        THEN IsRoundedClamped(30 * a.erScore + 25 * a.reachScore[1] + 20 * a.consistencyScore
                                + 15 * a.nicheScore - 10 * a.fraudPenalty, call.ret)
        ELSE /\ IsRoundedClamped(40 * a.erScore + 25 * a.consistencyScore
                                   + 20 * a.nicheScore - 15 * a.fraudPenalty, call.ret)
             /\ a.reachAvailable = FALSE =>
                  \A x \in ReachScores : computeTotalScore([a EXCEPT !.reachScore = x]) = call.ret

\* A total whose weighted sum ends in .5 (65.5), reach unavailable, a reach
\* score passed all the same.
C9_Witness ==
  /\ call.fn = "computeTotalScore" /\ call.done
  /\ call.args = [erScore |-> 70, reachScore |-> Num(75), consistencyScore |-> 70,
                  nicheScore |-> 100, fraudPenalty |-> 0, reachAvailable |-> FALSE]
  /\ call.ret = 66

\* The classification row written by the same run as score row i.
NicheRowOfRun(i) ==
  {j \in DOMAIN niche_classification :
     /\ niche_classification[j].creator_id = creator_scores[i].creator_id
     /\ niche_classification[j].computed_at = creator_scores[i].computed_at}

\* C10: with the stand-in signals (followers 1000, likes 50, comments 5, 8 posts
\* in 30 days), confidence 1.0 and no reach, the persisted score has erScore 70,
\* consistencyScore 70, nicheScore 100, fraudPenalty 0, total 66 and grade B.
C10_EndToEnd ==
  \A i \in DOMAIN creator_scores :
    (\E j \in NicheRowOfRun(i) : niche_classification[j].confidence = 100) =>
      /\ followers = 1000 /\ likes = 50 /\ comments = 5 /\ contentCount30d = 8
      /\ ~reachAvailable
      /\ creator_scores[i].er_score = 70
      /\ creator_scores[i].consistency_score = 70
      /\ creator_scores[i].niche_score = 100
      /\ creator_scores[i].fraud_penalty = 0
      /\ creator_scores[i].score_total = 66
      /\ creator_scores[i].grade = "B"

C10_Witness ==
  \E i \in DOMAIN creator_scores :
    /\ \E j \in NicheRowOfRun(i) :
         /\ niche_classification[j].confidence = 100
         /\ niche_classification[j].primary_niche = "food"
    /\ creator_scores[i].score_total = 66

\* The call of fn has returned.
Returned(fn) == call.fn = fn /\ call.done

\* The rules of the fraud penalty that the arguments trigger.
TriggeredRules(a) ==
  { r \in 1..3 :
      \/ r = 1 /\ a.followers > 20000 /\ 1000 * a.er.num < 8 * a.er.den
      \/ r = 2 /\ a.followers > 50000 /\ a.contentCount30d < 4
      \/ r = 3 /\ 100 * a.er.num > 12 * a.er.den /\ a.contentCount30d < 6 }

\* C11: computeFraudPenalty returns a value in [0,30] that is 10 times the
\* number of triggered rules among: followers>20000 and er<0.008; followers>50000
\* and contentCount30d<4; er>0.12 and contentCount30d<6.
C11_FraudPenalty ==
  Returned("computeFraudPenalty") =>
    /\ call.ret \in 0..30
    /\ call.ret = 10 * Cardinality(TriggeredRules(call.args))

\* Two rules triggered at once.
C11_Witness ==
  /\ Returned("computeFraudPenalty")
  /\ call.ret = 20
  /\ Cardinality(TriggeredRules(call.args)) = 2

\* C12: grade maps every integer total in [0,100] to A when total>=80, B when
\* 60<=total<80 and C otherwise; grade(79)=B, grade(80)=A, grade(59)=C, grade(60)=B.
C12_Grade ==
  (Returned("grade") /\ call.args \in 0..100) =>
    /\ call.ret = "A" <=> call.args >= 80
    /\ call.ret = "B" <=> (60 <= call.args /\ call.args < 80)
    /\ call.ret = "C" <=> call.args < 60
    /\ call.args = 79 => call.ret = "B"
    /\ call.args = 80 => call.ret = "A"
    /\ call.args = 59 => call.ret = "C"
    /\ call.args = 60 => call.ret = "B"

C12_Witness == Returned("grade") /\ call.args = 80 /\ call.ret = "A"

\* er1 <= er2 for two rationals with positive denominators.
LeqRatio(x, y) == x.num * y.den <= y.num * x.den

\* C13: computeErScore(er) is in {20,45,70,100}, is monotonically non-decreasing
\* in er, and steps exactly at 0.015, 0.03 and 0.06.
C13_ErScore ==
  Returned("computeErScore") =>
    LET er == call.args
    IN  /\ call.ret \in {20, 45, 70, 100}
        /\ \A lower \in ErInputs : LeqRatio(lower, er) => computeErScore(lower) <= call.ret
        /\ call.ret >= 45 <=> 1000 * er.num >= 15 * er.den
        /\ call.ret >= 70 <=> 100 * er.num >= 3 * er.den
        /\ call.ret = 100 <=> 100 * er.num >= 6 * er.den

\* A call exactly on the lowest step, 0.015.
C13_Witness ==
  /\ Returned("computeErScore")
  /\ 1000 * call.args.num = 15 * call.args.den
  /\ call.ret = 45

\* C14: for every confidence c in [0,1] in steps of 0.01, computeNicheScore(c) is
\* in {35,55,75,100} and is monotonically non-decreasing in c.
C14_NicheScore ==
  Returned("computeNicheScore") =>
    /\ call.ret \in {35, 55, 75, 100}
    /\ \A lower \in 0..call.args : computeNicheScore(lower) <= call.ret

\* A call on the step at 0.75, above calls that return each lower value.
C14_Witness ==
  /\ Returned("computeNicheScore")
  /\ call.args = 75
  /\ call.ret = 100
  /\ {computeNicheScore(lower) : lower \in 0..call.args} = {35, 55, 75, 100}

\* The number of keywords of each dictionary that occur in the lower-cased text
\* of the call's bio, a space, and its declared category.
HitCount(a) ==
  LET text == toLowerCase(a.bio \o <<" ">> \o a.declared)
  IN  [k \in 1..Len(DICTS) |->
         Cardinality({i \in 1..Len(DICTS[k].words) : includes(text, DICTS[k].words[i])})]

\* Among the dictionaries K, the one with the most hits, the first in dictionary
\* order of those that tie.
TopAmong(K, h) ==
  CHOOSE k \in K : \A j \in K : h[j] < h[k] \/ (h[j] = h[k] /\ k <= j)

AllTags == 1..Len(DICTS)

NoHit(h) == \A k \in AllTags : h[k] = 0

RECURSIVE SumOver(_, _)
SumOver(K, h) ==
  IF K = {} THEN 0 ELSE LET k == CHOOSE x \in K : TRUE IN h[k] + SumOver(K \ {k}, h)

\* C15: classifyNiche on input with no keyword hit (empty bio and empty declared
\* category, or a declared category that matches no keyword) returns primary niche
\* general, an empty secondary list, confidence 0 and empty evidence.
C15_NoHitGeneral ==
  (Returned("classifyNiche") /\ NoHit(HitCount(call.args))) =>
    call.ret = [primary_niche |-> "general", secondary_niches |-> <<>>,
                confidence |-> 0, evidence_keywords |-> <<>>]

\* A call with no keyword in a bio and a declared category that are not empty.
C15_Witness ==
  /\ Returned("classifyNiche")
  /\ NoHit(HitCount(call.args))
  /\ call.args.bio # <<>>
  /\ call.args.declared # <<>>
  /\ call.ret.primary_niche = "general"

\* C16, as stated: the primary niche classifyNiche returns is the tag with the
\* highest keyword hit count, the first in dictionary order of those that tie on it.
C16_PrimaryIsTop ==
  Returned("classifyNiche") =>
    call.ret.primary_niche = DICTS[TopAmong(AllTags, HitCount(call.args))].tag

\* C16, amended: when at least one keyword is hit, the primary niche is the tag
\* with the highest hit count, the first in dictionary order of those that tie on
\* it (with no hit it is general, which is no tag of the dictionary).
C16_PrimaryIsTopWhenHit ==
  (Returned("classifyNiche") /\ ~NoHit(HitCount(call.args))) =>
    call.ret.primary_niche = DICTS[TopAmong(AllTags, HitCount(call.args))].tag

\* Two tags tie on the highest hit count, and the earlier one is returned.
C16_Witness ==
  /\ Returned("classifyNiche")
  /\ LET h == HitCount(call.args)
         top == TopAmong(AllTags, h)
     IN  /\ h[top] > 0
         /\ \E j \in AllTags : j > top /\ h[j] = h[top]
         /\ call.ret.primary_niche = DICTS[top].tag

\* The call of the example: bio "sushi lover", no declared category.
SushiLover ==
  [bio |-> <<"s","u","s","h","i"," ","l","o","v","e","r">>, declared |-> <<>>]

\* C17: the confidence is the primary hit count over the total hits of all niches
\* (over 1 when there is no hit) rounded to two decimals, so it is in [0,1], and it
\* is 1.0 when only one niche has hits; "sushi lover" gives food, 1.0, ["sushi"].
C17_Confidence ==
  Returned("classifyNiche") =>
    LET h == HitCount(call.args)
        p == h[TopAmong(AllTags, h)]
        sum == SumOver(AllTags, h)
        t == IF sum = 0 THEN 1 ELSE sum
        c == call.ret.confidence
        d == 100 * p - c * t
    IN  /\ c \in 0..100
        /\ 2 * (IF d < 0 THEN 0 - d ELSE d) <= t
        /\ Cardinality({k \in AllTags : h[k] > 0}) = 1 => c = 100
        /\ call.args = SushiLover =>
             /\ call.ret.primary_niche = "food"
             /\ c = 100
             /\ call.ret.evidence_keywords = << <<"s","u","s","h","i">> >>

\* The example call has returned.
C17_Witness ==
  /\ Returned("classifyNiche")
  /\ call.args = SushiLover
  /\ call.ret.confidence = 100

\* C18: at most one secondary niche is reported: the second-ranked tag, and only
\* when its hit count is greater than 0; otherwise the list is empty; the secondary
\* niche is never the primary niche.
C18_Secondary ==
  Returned("classifyNiche") =>
    LET h == HitCount(call.args)
        first == TopAmong(AllTags, h)
        second == TopAmong(AllTags \ {first}, h)
        s == call.ret.secondary_niches
    IN  /\ Len(s) <= 1
        /\ s = IF h[second] > 0 THEN <<DICTS[second].tag>> ELSE <<>>
        /\ \A i \in 1..Len(s) : s[i] # call.ret.primary_niche

\* Three tags have hits: one is primary, one secondary, one is not reported.
C18_Witness ==
  /\ Returned("classifyNiche")
  /\ Cardinality({k \in AllTags : HitCount(call.args)[k] > 0}) >= 3
  /\ Len(call.ret.secondary_niches) = 1

\* The tags classifyNiche can return as primary niche.
ProducibleTags == {DICTS[k].tag : k \in AllTags} \cup {"general"}

\* C19: buildBrandTargets returns non-empty local and ecommerce lists for every
\* tag the classifier can produce, and the lists of the general entry for any tag
\* with no entry in the table.
C19_BrandTargetsTotal ==
  Returned("buildBrandTargets") =>
    /\ call.args \in ProducibleTags =>
         /\ call.ret.local # Undefined /\ Val(call.ret.local) # <<>>
         /\ call.ret.ecommerce # Undefined /\ Val(call.ret.ecommerce) # <<>>
    /\ call.args \notin DOMAIN BRAND_MAP =>
         call.ret = [local |-> Defined(BRAND_MAP.general.local),
                     ecommerce |-> Defined(BRAND_MAP.general.ecommerce)]

ConsentTypes == {"metrics_check", "share_with_brands", "marketing_contact"}

\* The creator has a consent record of the type.
HasConsent(c, type) ==
  \E i \in DOMAIN consent_records :
    consent_records[i].creator_id = c /\ consent_records[i].consent_type = type

\* C20: POST /api/lead creates the lead and records its consent together: after
\* any sequence of lead requests, also ones whose store writes fail part-way,
\* every creator row has its consent records, among them a granted metrics_check
\* consent (so that no creator comes from a request without that consent).
C20_LeadWithConsent ==
  \A c \in DOMAIN creators :
    /\ \A type \in ConsentTypes : HasConsent(c, type)
    /\ \E i \in DOMAIN consent_records :
         /\ consent_records[i].creator_id = c
         /\ consent_records[i].consent_type = "metrics_check"
         /\ consent_records[i].granted = 1

\* The creator has a brand-target row of the type.
HasBrandRow(c, type) ==
  \E i \in RowsOf(brand_targets, c) : brand_targets[i].target_type = type

\* C21: in every reachable state, a creator whose status is qualified has at
\* least one classification row, one score row and a local and an ecommerce
\* brand-target row (the status changes after the rows are persisted).
C21_QualifiedHasRows ==
  \A c \in DOMAIN creators :
    creators[c].status = "qualified" =>
      /\ RowsOf(niche_classification, c) # {}
      /\ RowsOf(creator_scores, c) # {}
      /\ HasBrandRow(c, "local")
      /\ HasBrandRow(c, "ecommerce")

\* One creator is qualified while another one is left connected by a run that
\* failed after its first insert.
C21_Witness ==
  \E c, d \in DOMAIN creators :
    /\ creators[c].status = "qualified"
    /\ RowsOf(creator_scores, c) # {}
    /\ creators[d].status = "connected"
    /\ RowsOf(niche_classification, d) # {}
    /\ RowsOf(brand_targets, d) = {}

\* C22: a creator's status becomes share_enabled only from status qualified; a
\* share-enable request for a creator that is lead, connected or revoked does not
\* set share_enabled.
C22_ShareOnlyFromQualified ==
  [][\A c \in DOMAIN creators :
       (creators'[c].status = "share_enabled" /\ creators[c].status # "share_enabled")
         => creators[c].status = "qualified"]_vars

\* C23: in the OAuth callback everything after the token exchange and the profile
\* fetch runs without another handler in between: a callback whose run succeeds
\* inserts the account and takes the creator to qualified in one step, the status
\* connected is left behind only by a callback that ends in its catch, and a
\* callback is suspended only at one of the two awaited network calls.
C23_NoInterleaving ==
  [][/\ \A r \in 1..MaxInflight :
          RunCompletes(r) =>
            /\ Len(connected_accounts') = Len(connected_accounts) + 1
            /\ connected_accounts'[Len(connected_accounts')].creator_id = inflight[r].creator_id
            /\ creators'[inflight[r].creator_id].status = "qualified"
     /\ \A c \in DOMAIN creators :
          (creators'[c].status = "connected" /\ creators[c].status # "connected")
            => logged' \in {"callback", "runQualification"}
     /\ \A r \in DOMAIN inflight' :
          inflight'[r].awaiting \in {"exchangeCodeForToken", "fetchMe"}]_vars

\* A callback has qualified a creator while another callback for the same creator
\* is suspended at its second await.
C23_Witness ==
  \E c \in DOMAIN creators, r \in DOMAIN inflight :
    /\ creators[c].status = "qualified"
    /\ Len(connected_accounts) = 1
    /\ inflight[r].creator_id = c
    /\ inflight[r].awaiting = "fetchMe"
    /\ logged = "none"

\* C24: in every reachable state, a creator whose status is revoked has no
\* connected account with status active.
C24_RevokedHasNoActiveAccount ==
  \A c \in DOMAIN creators :
    creators[c].status = "revoked" =>
      \A i \in RowsOf(connected_accounts, c) : connected_accounts[i].status # "active"

\* The arguments of computeTotalScore as a score row holds them, with the
\* reachAvailable flag of the run that wrote it.
ArgsOfRow(row) ==
  [erScore |-> row.er_score, reachScore |-> row.reach_score,
   consistencyScore |-> row.consistency_score, nicheScore |-> row.niche_score,
   fraudPenalty |-> row.fraud_penalty, reachAvailable |-> reachAvailable]

\* C25: every persisted creator-score row is internally consistent: its grade is
\* grade(score_total), score_total is an integer in [0,100] equal to
\* computeTotalScore of the sub-scores and penalty stored in the same row, and
\* fraud_penalty is in [0,30].
C25_ScoreRowConsistent ==
  \A i \in DOMAIN creator_scores :
    LET row == creator_scores[i]
    IN  /\ row.grade = grade(row.score_total)
        /\ row.score_total \in 0..100
        /\ row.score_total = computeTotalScore(ArgsOfRow(row))
        /\ row.fraud_penalty \in 0..30

\* Two persisted rows with different totals and different grades.
C25_Witness ==
  \E i, j \in DOMAIN creator_scores :
    /\ creator_scores[i].score_total = 66 /\ creator_scores[i].grade = "B"
    /\ creator_scores[j].score_total = 53 /\ creator_scores[j].grade = "C"

====
